---- MODULE Spec2Model ----
(***************************************************************************)
(* A model of the two scripts of the academic-profile repository:          *)
(*   scripts/update_pubs.py  the bibliography reconciler (main and the     *)
(*                           pure functions it calls), specification Spec, *)
(*                           and RerunSpec for two runs on the same inputs *)
(*   deploy.py               the deploy script, specification DeploySpec   *)
(* Python strings are sequences of one-character strings, so that lower(), *)
(* strip(), replace(), split() and re.sub() are computed, not assumed.     *)
(***************************************************************************)
EXTENDS Integers, Sequences, FiniteSets, TLC

VARIABLES
    pc,            \* update_pubs.main: the statement about to run
    orcid,         \* ORCID, read at import (update_pubs.py:8)
    manual_bib,    \* the entries of the manual .bib files, as parsed
    feed,          \* what the metadata source answers to the request
    manual_dois,   \* main: manual_dois
    manual_titles, \* main: manual_titles
    works,         \* main: works
    idx,           \* main: position of the for loop over works
    pub_pairs,     \* main: pub_pairs
    wp_pairs,      \* main: wp_pairs
    files,         \* the three output files' contents
    writes,        \* the output files written so far by this run, in order
    requests,      \* number of HTTP requests sent by this run
    abort,         \* why the run aborted, "none" while it has not
    run,           \* number of the run of main() on these inputs
    gen_ids,       \* identifiers work_to_entry generated in this run
    first_run,     \* the outputs and identifiers of the first run
    dpc,           \* deploy.main: the statement about to run
    attempt,       \* deploy_push_with_retries: attempt
    main_dirty,    \* what git status reports for MAIN_REPO
    gh_dirty,      \* what git status reports for GHPAGES_WORKTREE
    log,           \* deploy: the commands run so far, each with its outcome
    exit_status    \* deploy: how the process ended, "running" before

pubs_vars == <<pc, orcid, manual_bib, feed, manual_dois, manual_titles, works, idx,
               pub_pairs, wp_pairs, files, writes, requests, abort, run, gen_ids,
               first_run>>
deploy_vars == <<dpc, attempt, main_dirty, gh_dirty, log, exit_status>>
vars == <<pubs_vars, deploy_vars>>

----------------------------------------------------------------------------
(* Characters and strings *)

Uppers == <<"A","B","C","D","E","F","G","H","I","J","K","L","M",
            "N","O","P","Q","R","S","T","U","V","W","X","Y","Z">>
Lowers == <<"a","b","c","d","e","f","g","h","i","j","k","l","m",
            "n","o","p","q","r","s","t","u","v","w","x","y","z">>
DigitChars == <<"0","1","2","3","4","5","6","7","8","9">>
Whitespace == {" ", "\t", "\n"}

\* Python's None, and a dict key that is not set
NoneVal == <<"None">>

IndexIn(c, alphabet) ==
    IF \E i \in DOMAIN alphabet : alphabet[i] = c
    THEN CHOOSE i \in DOMAIN alphabet : alphabet[i] = c
    ELSE 0

LowerChar(c) ==
    IF IndexIn(c, Uppers) > 0 THEN Lowers[IndexIn(c, Uppers)] ELSE c

\* str.lower()
Lower(s) == [i \in DOMAIN s |-> LowerChar(s[i])]

IsAlnumLower(c) == IndexIn(c, Lowers) > 0 \/ IndexIn(c, DigitChars) > 0

\* str.strip()
RECURSIVE LStrip(_)
LStrip(s) ==
    IF s # <<>> /\ Head(s) \in Whitespace THEN LStrip(Tail(s)) ELSE s

RECURSIVE RStrip(_)
RStrip(s) ==
    IF s # <<>> /\ s[Len(s)] \in Whitespace
    THEN RStrip(SubSeq(s, 1, Len(s) - 1))
    ELSE s

Strip(s) == RStrip(LStrip(s))

StartsWith(s, p) == Len(s) >= Len(p) /\ SubSeq(s, 1, Len(p)) = p

\* str.replace(old, new), old non-empty: left to right, non-overlapping
RECURSIVE Replace(_, _, _)
Replace(s, old, new) ==
    IF s = <<>> THEN <<>>
    ELSE IF StartsWith(s, old)
         THEN new \o Replace(SubSeq(s, Len(old) + 1, Len(s)), old, new)
         ELSE <<Head(s)>> \o Replace(Tail(s), old, new)

\* re.sub(r"\s+", " ", t)
RECURSIVE CollapseWhitespace(_)
CollapseWhitespace(s) ==
    IF s = <<>> THEN <<>>
    ELSE IF Head(s) \in Whitespace
         THEN <<" ">> \o CollapseWhitespace(LStrip(s))
         ELSE <<Head(s)>> \o CollapseWhitespace(Tail(s))

\* str.split() with no separator: the maximal runs of non-whitespace
RECURSIVE SplitWhitespace(_)
SplitWhitespace(s) ==
    LET t == LStrip(s)
        n == IF \E i \in DOMAIN t : t[i] \in Whitespace
             THEN (CHOOSE i \in DOMAIN t :
                      /\ t[i] \in Whitespace
                      /\ \A j \in 1..(i - 1) : t[j] \notin Whitespace) - 1
             ELSE Len(t)
    IN  IF t = <<>> THEN <<>>
        ELSE <<SubSeq(t, 1, n)>> \o SplitWhitespace(SubSeq(t, n + 1, Len(t)))

\* str.split(sep) with a one-character separator
RECURSIVE SplitOn(_, _)
SplitOn(s, sep) ==
    IF \E i \in DOMAIN s : s[i] = sep
    THEN LET i == CHOOSE k \in DOMAIN s :
                      s[k] = sep /\ \A j \in 1..(k - 1) : s[j] # sep
         IN  <<SubSeq(s, 1, i - 1)>> \o SplitOn(SubSeq(s, i + 1, Len(s)), sep)
    ELSE <<s>>

\* s[:n]
Truncate(s, n) == SubSeq(s, 1, IF Len(s) < n THEN Len(s) ELSE n)

\* str(n) of a natural number
RECURSIVE Str(_)
Str(n) ==
    IF n < 10 THEN <<DigitChars[n + 1]>>
    ELSE Str(n \div 10) \o <<DigitChars[(n % 10) + 1]>>

IsDigits(s) == s # <<>> /\ \A i \in DOMAIN s : IndexIn(s[i], DigitChars) > 0

\* int(s) of a string of decimal digits
RECURSIVE ParseInt(_)
ParseInt(s) ==
    IF s = <<>> THEN 0
    ELSE 10 * ParseInt(SubSeq(s, 1, Len(s) - 1)) + (IndexIn(s[Len(s)], DigitChars) - 1)

\* " and ".join(names)
RECURSIVE Join(_, _)
Join(names, sep) ==
    IF names = <<>> THEN <<>>
    ELSE IF Len(names) = 1 THEN names[1]
    ELSE names[1] \o sep \o Join(Tail(names), sep)

HttpsPrefix == <<"h","t","t","p","s",":","/","/","d","o","i",".","o","r","g","/">>
HttpPrefix == <<"h","t","t","p",":","/","/","d","o","i",".","o","r","g","/">>

----------------------------------------------------------------------------
(* update_pubs.py: the pure functions *)

IsLeap(y) == (y % 4 = 0 /\ y % 100 # 0) \/ y % 400 = 0

DaysInMonth(y, m) ==
    IF m = 2 THEN (IF IsLeap(y) THEN 29 ELSE 28)
    ELSE IF m \in {4, 6, 9, 11} THEN 30 ELSE 31

\* datetime.date(y, m, d) raises ValueError outside these ranges
ValidDate(y, m, d) ==
    /\ y \in 1..9999
    /\ m \in 1..12
    /\ d \in 1..DaysInMonth(y, m)

\* A date as the number y*10000 + m*100 + d, which orders as dates do
DateNum(y, m, d) == y * 10000 + m * 100 + d

\* date.min = date(1, 1, 1)
DateMin == DateNum(1, 1, 1)

\* parse_date, lines 23-24: whether the split, the three int() and date() all
\* succeed. int() is modelled on strings of decimal digits; any other part
\* makes int() raise
Parses(d) ==
    LET parts == SplitOn(d, "-")
    IN  /\ Len(parts) = 3
        /\ \A i \in 1..3 : IsDigits(parts[i])
        /\ ValidDate(ParseInt(parts[1]), ParseInt(parts[2]), ParseInt(parts[3]))

\* parse_date: d is a string or None
parse_date(d) ==
    IF d = NoneVal \/ d = <<>> THEN DateMin
    ELSE IF Parses(d)
         THEN LET parts == SplitOn(d, "-")
              IN  DateNum(ParseInt(parts[1]), ParseInt(parts[2]), ParseInt(parts[3]))
         ELSE DateMin

StripDoiPrefixes(s) == Replace(Replace(s, HttpsPrefix, <<>>), HttpPrefix, <<>>)

\* norm_doi: strip, lower, then drop the scheme prefixes
norm_doi(doi) ==
    StripDoiPrefixes(Lower(Strip(IF doi = NoneVal THEN <<>> ELSE doi)))

IsTitleChar(c) == IsAlnumLower(c) \/ c = " "

normalise_title(t) ==
    Strip(SelectSeq(CollapseWhitespace(Lower(IF t = NoneVal THEN <<>> ELSE t)), IsTitleChar))

\* x or "" for a string field
OrEmpty(x) == IF x = NoneVal THEN <<>> ELSE x

\* Truncation lengths of the generated identifier
DoiKeyLen == 32
TitleKeyLen == 24

\* read_manual_keys: the DOIs and normalised titles of the manual entries
ManualDoi(e) ==
    LET doi == Lower(Strip(OrEmpty(e.doi)))
    IN  IF doi # <<>> THEN {StripDoiPrefixes(doi)} ELSE {}

read_manual_dois(bib) == UNION {ManualDoi(bib[i]) : i \in DOMAIN bib}

read_manual_titles(bib) == {normalise_title(OrEmpty(bib[i].title)) : i \in DOMAIN bib}

\* authors_to_bib
NamedAuthors(authorships) ==
    SelectSeq(OrEmpty(authorships), LAMBDA n : n # NoneVal /\ n # <<>>)

authors_to_bib(authorships) ==
    Join(NamedAuthors(authorships), <<" ","a","n","d"," ">>)

\* work_to_entry, line 85: the scheme prefix is dropped before lower()
doi_clean_of(w) ==
    LET doi == Strip(OrEmpty(w.doi))
    IN  IF doi # <<>> THEN Lower(StripDoiPrefixes(doi)) ELSE <<>>

journal_of(w) == Replace(OrEmpty(w.venue), <<"&">>, <<"\\", "&">>)

wtype_of(w) == Lower(OrEmpty(w.type))

\* Variant of IsPublication: the type alone decides
IsPublication_typeOnly(w) ==
    wtype_of(w) = <<"j","o","u","r","n","a","l","-","a","r","t","i","c","l","e">>

\* work_to_entry, lines 97-104: the category
IsPublication(w) ==
    \/ wtype_of(w) = <<"j","o","u","r","n","a","l","-","a","r","t","i","c","l","e">>
    \/ (journal_of(w) # <<>> /\ doi_clean_of(w) # <<>>)

AuthorDefault == <<"a","u","t","h","o","r">>

first_author_of(w) ==
    IF OrEmpty(w.authorships) = <<>> THEN AuthorDefault
    ELSE IF w.authorships[1] = NoneVal THEN AuthorDefault
    ELSE w.authorships[1]

surname_of(w) ==
    LET parts == SplitWhitespace(first_author_of(w))
    IN  Lower(IF parts = <<>> THEN AuthorDefault ELSE parts[Len(parts)])

\* A number that may be None is <<n>>, and <<>> for None.
\* f"{year}" with year = publication_year or ""
year_str(w) ==
    IF w.publication_year = <<>> \/ w.publication_year = <<0>>
    THEN <<>>
    ELSE Str(w.publication_year[1])

\* work_to_entry, lines 109-114: the generated identifier
entry_key(w) ==
    IF doi_clean_of(w) # <<>>
    THEN surname_of(w) \o year_str(w)
           \o Truncate(SelectSeq(Lower(doi_clean_of(w)), IsAlnumLower), DoiKeyLen)
    ELSE surname_of(w) \o year_str(w)
           \o SelectSeq(Truncate(normalise_title(OrEmpty(w.title)), TitleKeyLen),
                        IsAlnumLower)

Keyword(w) == IF IsPublication(w) THEN "publication" ELSE "workingpaper"

\* work_to_entry: the bib entry; a key that is not set holds NoneVal
entry_of(w) ==
    [ENTRYTYPE |-> IF IsPublication(w) THEN "article" ELSE "unpublished",
     ID |-> entry_key(w),
     title |-> OrEmpty(w.title),
     author |-> authors_to_bib(w.authorships),
     year |-> IF year_str(w) # <<>> THEN year_str(w) ELSE NoneVal,
     journal |-> IF journal_of(w) # <<>> /\ IsPublication(w)
                 THEN journal_of(w) ELSE NoneVal,
     doi |-> IF doi_clean_of(w) # <<>> THEN doi_clean_of(w) ELSE NoneVal,
     date |-> IF OrEmpty(w.publication_date) # <<>>
              THEN w.publication_date ELSE NoneVal,
     note |-> IF w.cited_by_count # <<>>
              THEN <<"C","i","t","e","d"," ","b","y"," ">> \o Str(w.cited_by_count[1])
              ELSE NoneVal,
     keywords |-> Keyword(w)]

\* work_to_entry: the web record
web_of(w) ==
    [id |-> entry_key(w),
     title |-> OrEmpty(w.title),
     year |-> IF year_str(w) # <<>> THEN w.publication_year ELSE <<>>,
     date |-> OrEmpty(w.publication_date),
     venue |-> journal_of(w),
     doi |-> doi_clean_of(w),
     doi_url |-> IF doi_clean_of(w) # <<>>
                 THEN HttpsPrefix \o doi_clean_of(w) ELSE NoneVal,
     cited_by_count |-> w.cited_by_count,
     keywords |-> <<Keyword(w)>>,
     authors |-> NamedAuthors(w.authorships),
     type |-> wtype_of(w)]

work_to_entry(w) == [entry |-> entry_of(w), web |-> web_of(w)]

\* main, lines 160-163: manual wins
ManualHas(web, dois, titles) ==
    \/ (web.doi # <<>> /\ web.doi \in dois)
    \/ normalise_title(web.title) \in titles

\* dedupe_keep_newest, lines 178-180: the duplicate key of a web record
dedupe_key(web) ==
    IF norm_doi(web.doi) # <<>>
    THEN <<"doi", norm_doi(web.doi)>>
    ELSE <<"title", normalise_title(web.title)>>

\* Variant of Newer: a later pair of the same date replaces the kept one
Newer_orEqual(web, cur_web) == parse_date(web.date) >= parse_date(cur_web.date)

\* dedupe_keep_newest, line 187: whether a later pair replaces the kept one
Newer(web, cur_web) == parse_date(web.date) > parse_date(cur_web.date)

\* dedupe_keep_newest, lines 176-188: best, a dict in insertion order, as the
\* sequence of its values; assigning to a key that is set keeps its position
RECURSIVE BestOf(_, _)
BestOf(best, pairs) ==
    IF pairs = <<>> THEN best
    ELSE LET p == Head(pairs)
             k == dedupe_key(p.web)
             has == \E i \in DOMAIN best : dedupe_key(best[i].web) = k
             at == CHOOSE i \in DOMAIN best : dedupe_key(best[i].web) = k
         IN  IF ~has THEN BestOf(Append(best, p), Tail(pairs))
             ELSE IF Newer(p.web, best[at].web)
                  THEN BestOf([best EXCEPT ![at] = p], Tail(pairs))
                  ELSE BestOf(best, Tail(pairs))

\* list.sort(key=parse_date of the web date, reverse=True): stable, descending
RECURSIVE InsertByDate(_, _)
InsertByDate(sorted, p) ==
    IF sorted = <<>> THEN <<p>>
    ELSE IF parse_date(Head(sorted).web.date) >= parse_date(p.web.date)
         THEN <<Head(sorted)>> \o InsertByDate(Tail(sorted), p)
         ELSE <<p>> \o sorted

RECURSIVE SortByDateDesc(_, _)
SortByDateDesc(done, rest) ==
    IF rest = <<>> THEN done
    ELSE SortByDateDesc(InsertByDate(done, Head(rest)), Tail(rest))

\* Variant of dedupe_keep_newest: sorted, duplicates not merged
dedupe_noMerge(pairs) == SortByDateDesc(<<>>, pairs)

\* Variant of dedupe_keep_newest: duplicates merged, the result not sorted
dedupe_noSort(pairs) == BestOf(<<>>, pairs)

dedupe_keep_newest(pairs) == SortByDateDesc(<<>>, BestOf(<<>>, pairs))

----------------------------------------------------------------------------
(* The inputs of a run of update_pubs.py *)

\* Largest number of works in the metadata source's answer
MaxWorks == 3

Doi101a == <<"1","0",".","1","/","a">>
DoiUrlLower == HttpsPrefix \o Doi101a
DoiUrlUpper == <<"H","T","T","P","S",":","/","/","D","O","I",".","O","R","G","/",
                 "1","0",".","1","/","A">>
DoiDashed == <<"1","0",".","1","/","-","a">>

TitleAB1 == <<"A"," "," ","b","!">>
TitleAB2 == <<"a"," ","b">>
TitleC == <<"c">>

Date2020 == <<"2","0","2","0","-","0","1","-","0","1">>
Date2021 == <<"2","0","2","1","-","0","6","-","1","5">>
DateBadMonth == <<"2","0","1","9","-","1","3","-","0","1">>
DateYearOne == <<"0","0","0","1","-","0","1","-","0","1">>

JournalArticle == <<"j","o","u","r","n","a","l","-","a","r","t","i","c","l","e">>
JournalArticleCaps == <<"J","o","u","r","n","a","l","-","A","r","t","i","c","l","e">>
Preprint == <<"p","r","e","p","r","i","n","t">>

Venue == <<"J","&","M">>
Authors == << <<"N"," ","S","w">>, <<"B"," ","C">> >>

Work(doi, title, date, type, venue, cited) ==
    [doi |-> doi, title |-> title, publication_year |-> <<2021>>,
     publication_date |-> date, cited_by_count |-> cited, type |-> type,
     venue |-> venue, authorships |-> Authors]

\* The works the metadata source may report (fetch, line 73)
Works ==
    { Work(DoiUrlLower, TitleAB1, Date2020, JournalArticle, Venue, <<12>>),
      Work(<<" ">> \o DoiUrlLower, TitleAB2, Date2021, JournalArticleCaps, NoneVal, <<>>),
      Work(DoiUrlUpper, TitleC, Date2021, JournalArticle, NoneVal, <<>>),
      Work(DoiDashed, TitleC, NoneVal, Preprint, Venue, <<0>>),
      Work(NoneVal, TitleC, DateYearOne, JournalArticle, NoneVal, <<>>),
      Work(DoiUrlLower, TitleAB2, Date2021, Preprint, NoneVal, <<>>),
      Work(NoneVal, TitleC, DateBadMonth, Preprint, Venue, <<>>),
      Work(NoneVal, TitleAB2, Date2020, Preprint, NoneVal, <<>>),
      Work(NoneVal, TitleAB1, <<>>, Preprint, NoneVal, <<>>) }

SeqsUpTo(S, n) == UNION {[1..k -> S] : k \in 0..n}

\* What the request of fetch may end in (lines 67-73)
Feeds ==
    {[status |-> "ok", results |-> ws] : ws \in SeqsUpTo(Works, MaxWorks)}
    \cup {[status |-> st, results |-> <<>>] : st \in {"timeout", "http_error"}}

ManualDoiEntry == [doi |-> <<" ">> \o HttpsPrefix \o <<"1","0",".","1","/","A">>,
                   title |-> <<"m">>]
ManualTitleEntry == [doi |-> NoneVal, title |-> <<"A"," ","B","?">>]

\* The entries of the manual .bib files (MANUAL_BIBS, line 15)
ManualBibs == {<<>>, <<ManualDoiEntry>>, <<ManualDoiEntry, ManualTitleEntry>>}

\* The text of data/orcid.txt (line 8)
OrcidFiles == {<<" ", "\n">>, <<"0","0","0","0","-","0","0","0","1","\n">>}

----------------------------------------------------------------------------
(* update_pubs.py: main() *)

NoOutput == [pubs |-> <<>>, wps |-> <<>>, json |-> <<>>, ids |-> <<>>]

\* An output file: its content and the run that wrote it (0: an earlier one)
OldFile == [by |-> 0, content |-> <<>>]

\* Variant of WriteText: the content is added to the file's
WriteText_append(old, content) == old \o content

\* Path.write_text: the file's content is replaced
WriteText(old, content) == content

PubsInit ==
    /\ pc = "start"
    /\ orcid \in {Strip(t) : t \in OrcidFiles}
    /\ manual_bib \in ManualBibs
    /\ feed \in Feeds
    /\ manual_dois = {}
    /\ manual_titles = {}
    /\ works = <<>>
    /\ idx = 1
    /\ pub_pairs = <<>>
    /\ wp_pairs = <<>>
    /\ files = [pubs |-> OldFile, wps |-> OldFile, json |-> OldFile]
    /\ writes = <<>>
    /\ requests = 0
    /\ abort = "none"
    /\ run = 1
    /\ gen_ids = <<>>
    /\ first_run = NoOutput

\* lines 148-149
CheckOrcid ==
    /\ pc = "start"
    /\ IF orcid = <<>>
       THEN pc' = "aborted" /\ abort' = "no_orcid"
       ELSE pc' = "read_manual" /\ abort' = abort
    /\ UNCHANGED <<orcid, manual_bib, feed, manual_dois, manual_titles, works, idx,
                   pub_pairs, wp_pairs, files, writes, requests, run, gen_ids,
                   first_run, deploy_vars>>

\* line 151
ReadManualKeys ==
    /\ pc = "read_manual"
    /\ manual_dois' = read_manual_dois(manual_bib)
    /\ manual_titles' = read_manual_titles(manual_bib)
    /\ pc' = "fetch"
    /\ UNCHANGED <<orcid, manual_bib, feed, works, idx, pub_pairs, wp_pairs, files,
                   writes, requests, abort, run, gen_ids, first_run, deploy_vars>>

\* Variant of FetchRaises: raise_for_status is not called
FetchRaises_timeoutOnly(status) == status = "timeout"

\* fetch, lines 67-72: requests.get raises on a timeout, raise_for_status on
\* an error status
FetchRaises(status) == status # "ok"

\* line 152: one request; what fetch raises leaves main
Fetch ==
    /\ pc = "fetch"
    /\ requests' = requests + 1
    /\ IF FetchRaises(feed.status)
       THEN /\ works' = works
            /\ pc' = "aborted"
            /\ abort' = feed.status
       ELSE /\ works' = feed.results
            /\ pc' = "loop"
            /\ abort' = abort
    /\ UNCHANGED <<orcid, manual_bib, feed, manual_dois, manual_titles, idx, pub_pairs,
                   wp_pairs, files, writes, run, gen_ids, first_run, deploy_vars>>

\* work_to_entry of each work the source may report, computed once
PairTable == [w \in Works |-> work_to_entry(w)]

\* lines 156-168: one iteration of the loop over works
ProcessWork ==
    /\ pc = "loop"
    /\ idx <= Len(works)
    /\ LET pair == PairTable[works[idx]]
       IN  /\ gen_ids' = Append(gen_ids, pair.web.id)
           /\ IF ManualHas(pair.web, manual_dois, manual_titles)
              THEN UNCHANGED <<pub_pairs, wp_pairs>>
              ELSE IF \E i \in DOMAIN pair.web.keywords :
                          pair.web.keywords[i] = "publication"
                   THEN pub_pairs' = Append(pub_pairs, pair) /\ wp_pairs' = wp_pairs
                   ELSE wp_pairs' = Append(wp_pairs, pair) /\ pub_pairs' = pub_pairs
    /\ idx' = idx + 1
    /\ UNCHANGED <<pc, orcid, manual_bib, feed, manual_dois, manual_titles, works,
                   files, writes, requests, abort, run, first_run, deploy_vars>>

\* lines 194-195
Dedupe ==
    /\ pc = "loop"
    /\ idx > Len(works)
    /\ pub_pairs' = dedupe_keep_newest(pub_pairs)
    /\ wp_pairs' = dedupe_keep_newest(wp_pairs)
    /\ pc' = "write_pubs"
    /\ UNCHANGED <<orcid, manual_bib, feed, manual_dois, manual_titles, works, idx,
                   files, writes, requests, abort, run, gen_ids, first_run,
                   deploy_vars>>

\* lines 197-199
EntriesOf(pairs) == [i \in DOMAIN pairs |-> pairs[i].entry]
WebsOf(pairs) == [i \in DOMAIN pairs |-> pairs[i].web]
web_items == WebsOf(pub_pairs \o wp_pairs)

\* line 201. The content of a .bib file is the list of entries handed to
\* write_bib; the library's writer lays them out, ordered by year and ID
\* (lines 141-145)
WritePubs ==
    /\ pc = "write_pubs"
    /\ files' = [files EXCEPT !.pubs =
                    [by |-> run, content |-> WriteText(@.content, EntriesOf(pub_pairs))]]
    /\ writes' = Append(writes, "pubs")
    /\ pc' = "write_wps"
    /\ UNCHANGED <<orcid, manual_bib, feed, manual_dois, manual_titles, works, idx,
                   pub_pairs, wp_pairs, requests, abort, run, gen_ids, first_run,
                   deploy_vars>>

\* line 202
WriteWps ==
    /\ pc = "write_wps"
    /\ files' = [files EXCEPT !.wps =
                    [by |-> run, content |-> WriteText(@.content, EntriesOf(wp_pairs))]]
    /\ writes' = Append(writes, "wps")
    /\ pc' = "write_json"
    /\ UNCHANGED <<orcid, manual_bib, feed, manual_dois, manual_titles, works, idx,
                   pub_pairs, wp_pairs, requests, abort, run, gen_ids, first_run,
                   deploy_vars>>

\* line 203
WriteJson ==
    /\ pc = "write_json"
    /\ files' = [files EXCEPT !.json =
                    [by |-> run, content |-> WriteText(@.content, web_items)]]
    /\ writes' = Append(writes, "json")
    /\ pc' = "done"
    /\ UNCHANGED <<orcid, manual_bib, feed, manual_dois, manual_titles, works, idx,
                   pub_pairs, wp_pairs, requests, abort, run, gen_ids, first_run,
                   deploy_vars>>

\* The script is run a second time on the same inputs: a new process, whose
\* variables start afresh; the files are those the first run left
Rerun ==
    /\ pc = "done"
    /\ run = 1
    /\ run' = 2
    /\ first_run' = [pubs |-> files.pubs.content, wps |-> files.wps.content,
                     json |-> files.json.content, ids |-> gen_ids]
    /\ pc' = "start"
    /\ manual_dois' = {}
    /\ manual_titles' = {}
    /\ works' = <<>>
    /\ idx' = 1
    /\ pub_pairs' = <<>>
    /\ wp_pairs' = <<>>
    /\ writes' = <<>>
    /\ requests' = 0
    /\ gen_ids' = <<>>
    /\ UNCHANGED <<orcid, manual_bib, feed, files, abort, deploy_vars>>

----------------------------------------------------------------------------
(* deploy.py *)

\* deploy_push_with_retries(max_retries=3, ...), line 108
max_retries == 3

\* Variant of AfterCommand: check=False, a failed command is passed over
AfterCommand_unchecked(ok, next) == next

\* run(), line 17: check=True, so a failed command raises CalledProcessError,
\* which nothing in main() catches: the statement after it is not reached
AfterCommand(ok, next) == IF ok THEN next ELSE "exited"

\* lines 112-117, 29: how the process ends when a step fails
FailureStatus(kind) ==
    IF kind = "command" THEN "command_failed"
    ELSE IF kind = "path" THEN "missing_path"
    ELSE "os_error"

\* One step of main(): cmd succeeds or fails; kind tells what a failure raises
Step(at, cmd, kind, next) ==
    /\ dpc = at
    /\ \E ok \in BOOLEAN :
          /\ log' = Append(log, [cmd |-> cmd, ok |-> ok])
          /\ dpc' = AfterCommand(ok, next)
          /\ exit_status' = IF AfterCommand(ok, next) = "exited"
                            THEN FailureStatus(kind) ELSE exit_status
    /\ UNCHANGED <<attempt, main_dirty, gh_dirty, pubs_vars>>

\* line 71 and line 103: whether the commit runs
CommitNeeded(dirty) == dirty

\* git_has_changes, lines 22-24: git status fails, or reports a clean or a
\* changed tree
StatusStep(at, cmd, if_dirty, if_clean) ==
    /\ dpc = at
    /\ \E ok \in BOOLEAN, dirty \in BOOLEAN :
          /\ log' = Append(log, [cmd |-> cmd, ok |-> ok])
          /\ dpc' = AfterCommand(ok, IF CommitNeeded(dirty) THEN if_dirty ELSE if_clean)
          /\ exit_status' = IF ok THEN exit_status ELSE FailureStatus("command")
          /\ IF ok /\ at = "status_main"
             THEN main_dirty' = dirty /\ gh_dirty' = gh_dirty
             ELSE IF ok
                  THEN gh_dirty' = dirty /\ main_dirty' = main_dirty
                  ELSE UNCHANGED <<main_dirty, gh_dirty>>
    /\ UNCHANGED <<attempt, pubs_vars>>

\* line 65
EnsurePaths == Step("ensure_paths", "ensure_paths", "path", "switch_main")
\* line 69
SwitchMain == Step("switch_main", "git switch main", "command", "status_main")
\* line 71
StatusMain == StatusStep("status_main", "git status main", "add_main", "push_main")
\* line 72
AddMain == Step("add_main", "git add main", "command", "commit_main")
\* line 73
CommitMain == Step("commit_main", "git commit main", "command", "push_main")
\* line 77
PushMain == Step("push_main", "git push origin main", "command", "render")
\* line 80
Render == Step("render", "quarto render", "command", "write_cname")
\* line 83
WriteCname == Step("write_cname", "write_cname", "os", "switch_gh")
\* line 86
SwitchGh == Step("switch_gh", "git switch gh-pages", "command", "fetch_gh")
\* line 89
FetchGh == Step("fetch_gh", "git fetch gh-pages", "command", "reset_gh")
\* line 90
ResetGh == Step("reset_gh", "git reset --hard", "command", "rm_gh")
\* line 93
RmGh == Step("rm_gh", "git rm", "command", "copy_site")
\* line 96
CopySite == Step("copy_site", "cp site", "command", "touch_nojekyll")
\* line 99
TouchNojekyll == Step("touch_nojekyll", "touch .nojekyll", "os", "add_gh")
\* line 101
AddGh == Step("add_gh", "git add gh-pages", "command", "status_gh")
\* line 103
StatusGh == StatusStep("status_gh", "git status gh-pages", "commit_gh", "for_attempt")
\* line 104
CommitGh == Step("commit_gh", "git commit gh-pages", "command", "for_attempt")

\* Variant of RetryAgain: the first failure goes to the fallback
RetryAgain_never(a) == a < 1

\* line 56: whether the handler sleeps and goes on to the next attempt
RetryAgain(a) == a < max_retries

\* line 41: for attempt in range(1, max_retries + 1); the function returns
\* when the range is used up
ForAttempt ==
    /\ dpc = "for_attempt"
    /\ IF attempt < max_retries
       THEN attempt' = attempt + 1 /\ dpc' = "try_fetch"
       ELSE attempt' = attempt /\ dpc' = "print_done"
    /\ UNCHANGED <<main_dirty, gh_dirty, log, exit_status, pubs_vars>>

\* line 44: a failure is caught by the handler of line 47
TryFetch ==
    /\ dpc = "try_fetch"
    /\ \E ok \in BOOLEAN :
          /\ log' = Append(log, [cmd |-> "retry: git fetch gh-pages", ok |-> ok])
          /\ dpc' = IF ok THEN "try_push" ELSE "except"
    /\ UNCHANGED <<attempt, main_dirty, gh_dirty, exit_status, pubs_vars>>

\* lines 45-46: return after a push that succeeded
TryPush ==
    /\ dpc = "try_push"
    /\ \E ok \in BOOLEAN :
          /\ log' = Append(log, [cmd |-> "git push --force-with-lease", ok |-> ok])
          /\ dpc' = IF ok THEN "print_done" ELSE "except"
    /\ UNCHANGED <<attempt, main_dirty, gh_dirty, exit_status, pubs_vars>>

\* lines 47-58: sleep and continue, or go on to the fallback
Except ==
    /\ dpc = "except"
    /\ dpc' = IF RetryAgain(attempt) THEN "for_attempt" ELSE "fallback"
    /\ UNCHANGED <<attempt, main_dirty, gh_dirty, log, exit_status, pubs_vars>>

\* lines 60-62: raised inside the handler, a failure leaves the function
Fallback == Step("fallback", "git push --force", "command", "print_done")

\* line 110, and the normal end of the process
PrintDone ==
    /\ dpc = "print_done"
    /\ dpc' = "exited"
    /\ exit_status' = "done"
    /\ UNCHANGED <<attempt, main_dirty, gh_dirty, log, pubs_vars>>

DeployIdle ==
    /\ dpc = "idle"
    /\ attempt = 0
    /\ main_dirty = FALSE
    /\ gh_dirty = FALSE
    /\ log = <<>>
    /\ exit_status = "running"

PubsIdle ==
    /\ pc = "idle"
    /\ orcid = <<>>
    /\ manual_bib = <<>>
    /\ feed = [status |-> "ok", results |-> <<>>]
    /\ manual_dois = {}
    /\ manual_titles = {}
    /\ works = <<>>
    /\ idx = 1
    /\ pub_pairs = <<>>
    /\ wp_pairs = <<>>
    /\ files = [pubs |-> OldFile, wps |-> OldFile, json |-> OldFile]
    /\ writes = <<>>
    /\ requests = 0
    /\ abort = "none"
    /\ run = 1
    /\ gen_ids = <<>>
    /\ first_run = NoOutput

DeployInit ==
    /\ PubsIdle
    /\ dpc = "ensure_paths"
    /\ attempt = 0
    /\ main_dirty = FALSE
    /\ gh_dirty = FALSE
    /\ log = <<>>
    /\ exit_status = "running"

DeployNext ==
    \/ EnsurePaths
    \/ SwitchMain
    \/ StatusMain
    \/ AddMain
    \/ CommitMain
    \/ PushMain
    \/ Render
    \/ WriteCname
    \/ SwitchGh
    \/ FetchGh
    \/ ResetGh
    \/ RmGh
    \/ CopySite
    \/ TouchNojekyll
    \/ AddGh
    \/ StatusGh
    \/ CommitGh
    \/ ForAttempt
    \/ TryFetch
    \/ TryPush
    \/ Except
    \/ Fallback
    \/ PrintDone

\* A Python process runs its next statement, and each command and the sleep
\* of line 57 are taken to end: a step that can be taken is taken
DeploySpec == DeployInit /\ [][DeployNext]_vars /\ WF_vars(DeployNext)

----------------------------------------------------------------------------
(* Specifications of update_pubs.py *)

Init == PubsInit /\ DeployIdle

Next ==
    \/ CheckOrcid
    \/ ReadManualKeys
    \/ Fetch
    \/ ProcessWork
    \/ Dedupe
    \/ WritePubs
    \/ WriteWps
    \/ WriteJson

Spec == Init /\ [][Next]_vars

RerunNext == Next \/ Rerun

RerunSpec == Init /\ [][RerunNext]_vars

----------------------------------------------------------------------------
(* Properties of update_pubs.py *)

\* The dedupe step has run: pub_pairs and wp_pairs are the lists emitted
Emitted == pc \in {"write_pubs", "write_wps", "write_json", "done"}

PairsOfWorks == [i \in DOMAIN works |-> PairTable[works[i]]]

\* The pairs of the fetched works that pass the manual filter, in input order
Survivors ==
    SelectSeq(PairsOfWorks, LAMBDA p : ~ManualHas(p.web, manual_dois, manual_titles))

SurvivorsIn(category) ==
    SelectSeq(Survivors, LAMBDA p : p.entry.keywords = category)

Range(seq) == {seq[i] : i \in DOMAIN seq}

\* The pairs a finished run has put in an output file
InOutputs ==
    {p \in Range(PairsOfWorks) :
        \/ p.entry \in Range(files.pubs.content)
        \/ p.entry \in Range(files.wps.content)
        \/ p.web \in Range(files.json.content)}

\* A fetched work whose DOI, lowercased and without its scheme prefix, is a
\* manual DOI, or whose normalised title is a manual title
ManuallyCurated(w) ==
    \/ norm_doi(w.doi) \in manual_dois
    \/ normalise_title(w.title) \in manual_titles

\* C1 (as claimed): when a run is done, no fetched work that is manually
\* curated, by DOI or by title, appears in the publications file, the working
\* papers file or the web JSON.
C1_ManualPrecedence ==
    pc = "done" =>
        \A i \in DOMAIN works :
            ManuallyCurated(works[i]) => PairTable[works[i]] \notin InOutputs

\* C2 (as claimed): when a run is done, no two records of the web JSON, that
\* is of the publications and working papers together, carry the same
\* generated identifier.
C2_UniqueIdentifiers ==
    pc = "done" =>
        \A i, j \in DOMAIN files.json.content :
            i # j => files.json.content[i].id # files.json.content[j].id

\* C3 (as claimed): no two emitted records have the same NormalizedKey, also
\* when one is a publication and the other a working paper.
C3_NoCollisionAcrossOutput ==
    Emitted =>
        \A i, j \in DOMAIN web_items :
            i # j => dedupe_key(web_items[i]) # dedupe_key(web_items[j])

DistinctKeys(pairs) ==
    \A i, j \in DOMAIN pairs :
        i # j => dedupe_key(pairs[i].web) # dedupe_key(pairs[j].web)

\* C3 (amended): no two records emitted in the same category, publications or
\* working papers, have the same NormalizedKey.
C3_NoCollisionWithinCategory ==
    Emitted => DistinctKeys(pub_pairs) /\ DistinctKeys(wp_pairs)

\* C3 witness: two emitted publications, after a third surviving publication
\* with the key of one of them was merged away
C3_Witness ==
    /\ Emitted
    /\ Len(pub_pairs) = 2
    /\ Len(SurvivorsIn("publication")) = 3

\* The date a record is ordered by: a missing or unparseable date counts as
\* the earliest date
DateOf(p) == parse_date(p.web.date)

HasRealDate(p) == p.web.date # <<>> /\ Parses(p.web.date)

\* Of the records before[i] with one key, kept is the first with the latest date
IsNewestOf(kept, before) ==
    \E i \in DOMAIN before :
        /\ before[i] = kept
        /\ \A j \in DOMAIN before :
              dedupe_key(before[j].web) = dedupe_key(kept.web) =>
                  \/ DateOf(before[j]) < DateOf(kept)
                  \/ (DateOf(before[j]) = DateOf(kept) /\ j >= i)

KeepsNewest(before, after) ==
    /\ {dedupe_key(p.web) : p \in Range(after)} = {dedupe_key(p.web) : p \in Range(before)}
    /\ DistinctKeys(after)
    /\ \A p \in Range(after) : IsNewestOf(p, before)

\* C4: the dedupe step turns each category's list of surviving records into
\* a list with exactly one record per NormalizedKey of the list, no key lost,
\* and that record is the one with the latest date, a missing or unparseable
\* date counting as the earliest, the first in input order among equals.
C4_KeepNewest ==
    [][(pc = "loop" /\ pc' = "write_pubs") =>
          /\ KeepsNewest(pub_pairs, pub_pairs')
          /\ KeepsNewest(wp_pairs, wp_pairs')]_vars

\* C4 witness: three surviving publications with one key: the second, newer
\* than the first, is the one kept, and the third, of the same date, is not
C4_Witness ==
    /\ pc = "write_pubs"
    /\ Len(SurvivorsIn("publication")) = 3
    /\ Len(pub_pairs) = 1
    /\ pub_pairs[1] = SurvivorsIn("publication")[2]
    /\ DateOf(SurvivorsIn("publication")[3]) = DateOf(pub_pairs[1])
    /\ SurvivorsIn("publication")[3] # pub_pairs[1]

Descending(pairs) ==
    \A i, j \in DOMAIN pairs : i < j => DateOf(pairs[i]) >= DateOf(pairs[j])

MissingAfterReal(pairs) ==
    \A i, j \in DOMAIN pairs :
        (i < j /\ ~HasRealDate(pairs[i])) => ~HasRealDate(pairs[j])

MissingAfterLaterThanMin(pairs) ==
    \A i, j \in DOMAIN pairs :
        (i < j /\ ~HasRealDate(pairs[i])) =>
            (~HasRealDate(pairs[j]) \/ DateOf(pairs[j]) = DateMin)

JsonIsPubsThenWps ==
    pc = "done" => files.json.content = WebsOf(pub_pairs) \o WebsOf(wp_pairs)

\* C5 (as claimed): each emitted category list is in non-increasing order of
\* date with every record without a real date after every record with one,
\* and the web JSON is the publications followed by the working papers.
C5_MissingDatesLast ==
    /\ Emitted =>
          /\ Descending(pub_pairs) /\ MissingAfterReal(pub_pairs)
          /\ Descending(wp_pairs) /\ MissingAfterReal(wp_pairs)
    /\ JsonIsPubsThenWps

\* C5 (amended): each emitted category list is in non-increasing order of
\* date, a missing or unparseable date counting as 0001-01-01, so that every
\* record without a real date comes after every record dated later than
\* 0001-01-01; and the web JSON is the publications followed by the working
\* papers.
C5_DescendingByParsedDate ==
    /\ Emitted =>
          /\ Descending(pub_pairs) /\ MissingAfterLaterThanMin(pub_pairs)
          /\ Descending(wp_pairs) /\ MissingAfterLaterThanMin(wp_pairs)
    /\ JsonIsPubsThenWps

\* C5 witness: three working papers written, fetched in another order: the
\* first two with different real dates, the last without a real date
C5_Witness ==
    /\ pc = "done"
    /\ Len(wp_pairs) = 3
    /\ wp_pairs # SurvivorsIn("workingpaper")
    /\ DateOf(wp_pairs[1]) > DateOf(wp_pairs[2])
    /\ HasRealDate(wp_pairs[2])
    /\ ~HasRealDate(wp_pairs[3])
    /\ Len(files.json.content) = 3

\* The category rule in the claim's words, on the fetched work
IsJournalArticle(w) == Lower(OrEmpty(w.type)) = JournalArticle
HasVenue(w) == OrEmpty(w.venue) # <<>>
HasDoi(w) == norm_doi(w.doi) # <<>>
ClaimedPublication(w) == IsJournalArticle(w) \/ (HasVenue(w) /\ HasDoi(w))

\* C6: of the works the loop has gone through, one that passes the manual
\* filter is in the publications collection if and only if its type is
\* journal-article or it has a venue and a DOI, and in the working papers
\* collection otherwise.
C6_Categorization ==
    pc = "loop" =>
        \A i \in 1..(idx - 1) :
            LET w == works[i]
                p == PairTable[w]
            IN  ~ManualHas(p.web, manual_dois, manual_titles) =>
                    /\ p \in Range(pub_pairs) <=> ClaimedPublication(w)
                    /\ p \in Range(wp_pairs) <=> ~ClaimedPublication(w)
                    /\ p.entry.ENTRYTYPE = "article" <=> ClaimedPublication(w)

\* C6 witness: a journal article without DOI and a preprint with venue and
\* DOI among the publications, a preprint without venue and DOI among the
\* working papers
C6_Witness ==
    /\ pc = "loop"
    /\ \E i \in DOMAIN works :
          /\ IsJournalArticle(works[i]) /\ ~HasDoi(works[i])
          /\ PairTable[works[i]] \in Range(pub_pairs)
    /\ \E i \in DOMAIN works :
          /\ ~IsJournalArticle(works[i]) /\ HasVenue(works[i]) /\ HasDoi(works[i])
          /\ PairTable[works[i]] \in Range(pub_pairs)
    /\ \E i \in DOMAIN works :
          /\ ~IsJournalArticle(works[i]) /\ ~HasVenue(works[i]) /\ ~HasDoi(works[i])
          /\ PairTable[works[i]] \in Range(wp_pairs)

FilesUntouched == \A f \in {"pubs", "wps", "json"} : files[f] = OldFile

\* C7: a run with an empty ORCID sends no request and aborts; a run whose
\* request times out or gets an error status aborts; an aborted run has
\* written none of the three files; a file is written only after the one
\* request of the run has succeeded.
C7_FailFast ==
    /\ requests <= 1
    /\ orcid = <<>> => (pc \in {"start", "aborted"} /\ requests = 0)
    /\ (requests = 1 /\ feed.status # "ok") => pc = "aborted"
    /\ pc = "aborted" => (writes = <<>> /\ FilesUntouched)
    /\ (writes # <<>> \/ ~FilesUntouched) => (requests = 1 /\ feed.status = "ok")

\* C7 witness: the request got an error status and the run has aborted
C7_Witness ==
    /\ pc = "aborted"
    /\ abort = "http_error"
    /\ requests = 1

----------------------------------------------------------------------------
(* Properties of deploy.py *)

RetryFetchCmd == "retry: git fetch gh-pages"
LeasePushCmd == "git push --force-with-lease"
ForcePushCmd == "git push --force"
RetryCmds == {RetryFetchCmd, LeasePushCmd}
GhPushCmds == {LeasePushCmd, ForcePushCmd}

Ran(cmd) == {i \in DOMAIN log : log[i].cmd = cmd}
Succeeded(cmd) == {i \in DOMAIN log : log[i].cmd = cmd /\ log[i].ok}
FailedAttempts == {i \in DOMAIN log : log[i].cmd \in RetryCmds /\ ~log[i].ok}

FallbackFailed ==
    /\ dpc = "exited"
    /\ exit_status = "command_failed"
    /\ log # <<>>
    /\ log[Len(log)] = [cmd |-> ForcePushCmd, ok |-> FALSE]

PushRetrySafety ==
    /\ Cardinality(Ran(LeasePushCmd)) <= max_retries
    /\ \A i \in Ran(LeasePushCmd) :
          i > 1 /\ log[i - 1] = [cmd |-> RetryFetchCmd, ok |-> TRUE]
    /\ \A i \in Succeeded(LeasePushCmd) :
          i = Len(log) /\ dpc \in {"print_done", "exited"}
    /\ Cardinality(Ran(ForcePushCmd)) <= 1
    /\ \A i \in Ran(ForcePushCmd) :
          /\ Cardinality({j \in FailedAttempts : j < i}) = max_retries
          /\ Succeeded(LeasePushCmd) = {}
          /\ i = Len(log)

\* C9: the force-with-lease push runs at most max_retries = 3 times, each
\* time right after a fetch that succeeded; a push that succeeds is the last
\* command of the function; the unconditional push runs at most once and only
\* after three failed attempts; and the function, once entered, ends: it
\* returns, or the failure of the unconditional push leaves it.
C9_PushRetryProtocol ==
    /\ []PushRetrySafety
    /\ (dpc = "for_attempt") ~> (dpc = "print_done" \/ FallbackFailed)

\* C9 witness: the unconditional push has run, after pushes with lease
C9_Witness ==
    /\ Ran(ForcePushCmd) # {}
    /\ Cardinality(Ran(LeasePushCmd)) = 2
    /\ dpc = "print_done"

\* The steps of main() in the order of the source, before the push of gh-pages
MainOrder ==
    <<"ensure_paths", "git switch main", "git status main", "git add main",
      "git commit main", "git push origin main", "quarto render", "write_cname",
      "git switch gh-pages", "git fetch gh-pages", "git reset --hard", "git rm",
      "cp site", "touch .nojekyll", "git add gh-pages", "git status gh-pages",
      "git commit gh-pages">>

Rank(cmd) ==
    IF cmd \in RetryCmds \cup {ForcePushCmd} THEN Len(MainOrder) + 1
    ELSE CHOOSE r \in DOMAIN MainOrder : MainOrder[r] = cmd

\* What must have succeeded before gh-pages is pushed
BeforeGhPush ==
    {"git push origin main", "quarto render", "write_cname", "git switch gh-pages",
     "git fetch gh-pages", "git reset --hard", "git rm", "cp site", "git add gh-pages"}

\* C10: the commands run in the order of the source; a command that fails,
\* other than a fetch or a push with lease of the retry loop, is the last one
\* run and the process ends in failure; gh-pages is pushed only after the
\* push of main, the render, the CNAME write and the steps on the worktree
\* have succeeded; a commit runs only on a tree git status reported changed.
C10_DeployOrder ==
    /\ \A i, j \in DOMAIN log :
          i < j => \/ Rank(log[i].cmd) < Rank(log[j].cmd)
                   \/ (log[i].cmd \in RetryCmds /\ Rank(log[j].cmd) > Len(MainOrder))
    /\ \A i \in DOMAIN log :
          (~log[i].ok /\ log[i].cmd \notin RetryCmds) =>
              (i = Len(log) /\ dpc = "exited" /\ exit_status \notin {"running", "done"})
    /\ \A i \in DOMAIN log :
          log[i].cmd \in GhPushCmds =>
              \A c \in BeforeGhPush : \E j \in Succeeded(c) : j < i
    /\ Ran("git commit main") # {} => main_dirty
    /\ Ran("git commit gh-pages") # {} => gh_dirty
    /\ exit_status = "done" => Succeeded(LeasePushCmd) \cup Succeeded(ForcePushCmd) # {}

\* C10 witness: a run that committed on main and on gh-pages and ended well,
\* after a first push attempt that failed
C10_Witness ==
    /\ exit_status = "done"
    /\ Ran("git commit main") # {}
    /\ Ran("git commit gh-pages") # {}
    /\ FailedAttempts # {}

====
